---- MODULE Spec2Model ----
(***************************************************************************)
(* A model of pyescrypt's Yescrypt hasher (src/src/pyescrypt/pyescrypt.py): *)
(* construction, digest, compare and __del__, over the native yescrypt      *)
(* library's five entry points.                                             *)
(*                                                                          *)
(* Byte strings are sequences of chunks [t |-> tag, v |-> content].  A      *)
(* chunk stands for a run of bytes that holds no '$': the text of a JSON    *)
(* document, the raw output of the key derivation, one '$'-free field of a  *)
(* crypt string.  The '$' delimiter and the 'y' marker are chunks of their  *)
(* own, so that startswith(b"$y$") and rfind(b"$") work on positions.       *)
(***************************************************************************)
EXTENDS Integers, Sequences, FiniteSets, TLC

\* ------------------------------------------------------------ bounds

\* Passwords are the one-byte strings <<1>> .. <<NumPasswords>>.
NumPasswords == 2
\* Non-empty salts are the one-byte strings <<1>> .. <<NumSalts>>.
NumSalts == 1

\* ------------------------------------------------- program constants

YESCRYPT_RW_DEFAULTS == 182

Modes == {"MCF", "JSON", "RAW"}

\* The hasher objects the caller creates, named in the order of creation.
Hashers == {"h1", "h2"}
Earlier(h) == IF h = "h2" THEN {"h1"} ELSE {}

Passwords == {<<i>> : i \in 1..NumPasswords}

\* An Optional[bytes]: None, or a byte string (which may be empty).
None == [some |-> FALSE, v |-> <<>>]
Some(b) == [some |-> TRUE, v |-> b]
\* Python's `not x` on an Optional[bytes]: None and b"" are both falsy.
Falsy(x) == ~x.some \/ Len(x.v) = 0

SaltBytes == {<<>>} \cup {<<i>> : i \in 1..NumSalts}
OptSalts == {None} \cup {Some(s) : s \in SaltBytes}

\* hash_length values the caller passes; 32 is the default.
HashLengths == {16, 32}

\* Values of n the caller passes: -1 does not fit a uint64_t, 3 is a block
\* count the native library rejects (not a power of two), 4 and 8 are valid.
Ns == {-1, 3, 4, 8}

\* ---------------------------------------------------------- chunks

Chunk(t, v) == [t |-> t, v |-> v]
Delim == Chunk("$", 0)
MarkY == Chunk("y", 0)

\* bytes equality (secrets.compare_digest, ==): same length, same chunks.
\* Tags are compared first so that contents of different kinds never meet.
ChunkEq(a, b) == a.t = b.t /\ a.v = b.v
BytesEq(a, b) ==
    /\ Len(a) = Len(b)
    /\ \A i \in 1..Len(a) : ChunkEq(a[i], b[i])

\* hashed_password.startswith(b"$y$")
StartsWithMarker(b) ==
    /\ Len(b) >= 3
    /\ b[1].t = "$" /\ b[2].t = "y" /\ b[3].t = "$"

\* hashed_password.rfind(b"$"), 1-based; 0 when there is none.
RFindDelim(b) ==
    LET idx == {i \in 1..Len(b) : b[i].t = "$"}
    IN IF idx = {} THEN 0 ELSE CHOOSE i \in idx : \A j \in idx : j <= i

\* len(b) for the byte strings whose length the code reads: raw keys.
ByteLen(b) == IF Len(b) = 0 THEN 0 ELSE b[1].v.len

\* ------------------------------------------------ the native library

\* ffi.new("yescrypt_params_t*", (YESCRYPT_RW_DEFAULTS, n, r, p, t, g, nrom))
MakeParams(n) ==
    [flags |-> YESCRYPT_RW_DEFAULTS, N |-> n, r |-> 8, p |-> 1, t |-> 0,
     g |-> 0, NROM |-> 0]

\* n fits the struct's uint64_t N (ffi.new raises OverflowError otherwise).
FitsUint64(n) == n >= 0

\* The parameter tuples the native library accepts.
ValidParams(P) == P.N \in {2, 4, 8, 16}

\* The raw output of the key derivation: buflen bytes that depend on the
\* parameters, the password and the salt, and on nothing else.  Distinct
\* inputs give distinct keys; a zero-length key is the empty string.
RawKey(P, passwd, salt, buflen) ==
    IF buflen = 0 THEN <<>>
    ELSE <<Chunk("key", [kdf |-> <<P, passwd, salt>>, len |-> buflen])>>

\* int yescrypt_kdf(shared, local, passwd, passwdlen, salt, saltlen, params,
\*                  buf, buflen): 0 and the key in buf, or non-zero.
yescrypt_kdf(P, passwd, salt, buflen) ==
    IF ValidParams(P)
    THEN [rc |-> 0, buf |-> RawKey(P, passwd, salt, buflen)]
    ELSE [rc |-> -1, buf |-> <<>>]

\* uint8_t *yescrypt_encode_params(params, src, srclen): the settings string
\* "$y$<params>$<salt>", or NULL.
yescrypt_encode_params(P, salt) ==
    IF ValidParams(P)
    THEN [null |-> FALSE,
          s |-> <<Delim, MarkY, Delim, Chunk("params", P), Delim,
                  Chunk("salt", salt)>>]
    ELSE [null |-> TRUE, s |-> <<>>]

\* A setting yescrypt_r can decode: "$y$<params>$<salt>".
WellFormedSetting(s) ==
    /\ Len(s) = 6
    /\ StartsWithMarker(s)
    /\ s[4].t = "params" /\ s[5].t = "$" /\ s[6].t = "salt"
    /\ ValidParams(s[4].v)

\* uint8_t *yescrypt_r(shared, local, passwd, passwdlen, setting, key, buf,
\*                     buflen): the setting, '$', and the encoded 32-byte key
\* derived with the parameters and salt decoded from the setting; or NULL.
yescrypt_r(passwd, setting) ==
    IF WellFormedSetting(setting)
    THEN [null |-> FALSE,
          s |-> setting \o
                <<Delim,
                  Chunk("hash", RawKey(setting[4].v, passwd, setting[6].v, 32))>>]
    ELSE [null |-> TRUE, s |-> <<>>]

\* ------------------------------------------------------ JSON, base64

\* dir(self._params): the struct's field names, sorted.
ParamNames == <<"N", "NROM", "flags", "g", "p", "r", "t">>
IsParamName(k) == \E i \in 1..Len(ParamNames) : ParamNames[i] = k

\* b64encode(b).decode(): a JSON string holding the base64 text of b.
b64encode(b) == [str |-> TRUE, b64 |-> b]
\* A JSON value that is no string (b64decode raises TypeError on it).
NotAString == [str |-> FALSE, b64 |-> <<>>]

\* The dict digest() serialises; cfg is the ordered list of its items.
Record(P, key, salt) ==
    [kind |-> "object",
     has |-> {"alg", "ver", "cfg", "key", "slt"},
     alg |-> "yescrypt", ver |-> "1.1",
     cfg |-> [i \in 1..Len(ParamNames) |-> <<ParamNames[i], P[ParamNames[i]]>>],
     key |-> b64encode(key),
     slt |-> b64encode(salt)]

\* json.dumps(obj, separators=(",", ":")).encode(): the compact text of obj.
\* ws marks a text of the same document laid out with whitespace.
json_dumps(obj) == <<Chunk("json", [doc |-> obj, ws |-> FALSE])>>

\* json.loads(b): the document of a JSON text; JSONDecodeError otherwise.
json_loads(b) ==
    IF Len(b) = 1 /\ b[1].t = "json"
    THEN [ok |-> TRUE, data |-> b[1].v.doc]
    ELSE [ok |-> FALSE, data |-> Record(MakeParams(0), <<>>, <<>>)]

\* ----------------------------------------------------------- digest

Raised(e, d) == [exc |-> e, out |-> <<>>, derived |-> d]
Returned(b) == [exc |-> "none", out |-> b, derived |-> TRUE]

\* The Mode.MCF branch of digest().
DigestMCF(self, password, salt, settings, hash_length) ==
    IF hash_length # 32 THEN Raised("ArgumentError", FALSE)
    ELSE IF Falsy(settings) /\ Falsy(salt) THEN Raised("ArgumentError", FALSE)
    ELSE LET enc == IF Falsy(settings)
                    THEN yescrypt_encode_params(self.params, salt.v)
                    ELSE [null |-> FALSE, s |-> settings.v]
         IN IF enc.null THEN Raised("EncodingError", FALSE)
            ELSE LET r == yescrypt_r(password, enc.s)
                 IN IF r.null THEN Raised("HashingError", TRUE)
                    ELSE Returned(r.s)

\* The else branch of digest(): Mode.JSON and Mode.RAW.
DigestKdf(self, password, salt, hash_length) ==
    IF ~salt.some THEN Raised("TypeError", FALSE)
    ELSE LET k == yescrypt_kdf(self.params, password, salt.v, hash_length)
         IN IF k.rc # 0 THEN Raised("HashingError", TRUE)
            ELSE IF self.mode = "JSON"
                 THEN Returned(json_dumps(Record(self.params, k.buf, salt.v)))
                 ELSE Returned(k.buf)

\* Yescrypt.digest(password, salt, settings, hash_length)
digest(self, password, salt, settings, hash_length) ==
    IF self.mode = "MCF"
    THEN DigestMCF(self, password, salt, settings, hash_length)
    ELSE DigestKdf(self, password, salt, hash_length)

\* ---------------------------------------------------------- compare

\* The final step: secrets.compare_digest(password_hash, hashed_password).
Verdict(d, hashed_password) ==
    IF d.exc # "none" THEN [exc |-> d.exc, derived |-> d.derived]
    ELSE IF BytesEq(d.out, hashed_password)
         THEN [exc |-> "none", derived |-> TRUE]
         ELSE [exc |-> "WrongPassword", derived |-> TRUE]

Fails(e) == [exc |-> e, derived |-> FALSE]

\* The loop over cfg.keys(): the index of the first entry that ends it, by a
\* field the parameters do not have (AttributeError) or by a value that
\* differs (WrongPasswordConfiguration); 0 when every entry agrees.
FirstBadCfg(self, cfg) ==
    LET bad == {i \in 1..Len(cfg) :
                  \/ ~IsParamName(cfg[i][1])
                  \/ cfg[i][2] # self.params[cfg[i][1]]}
    IN IF bad = {} THEN 0 ELSE CHOOSE i \in bad : \A j \in bad : i <= j

\* (mutant) the loop over cfg.keys() is left out.
CompareJSON_NoCfgCheck(self, password, hashed_password) ==
    LET p == json_loads(hashed_password)
        data == p.data
    IN IF ~p.ok THEN Fails("ArgumentError")
       ELSE IF data.kind # "object" THEN Fails("TypeError")
       ELSE IF "cfg" \notin data.has THEN Fails("KeyError")
       ELSE IF "slt" \notin data.has THEN Fails("KeyError")
       ELSE IF ~data.slt.str THEN Fails("TypeError")
       ELSE IF "key" \notin data.has THEN Fails("KeyError")
       ELSE IF ~data.key.str THEN Fails("TypeError")
       ELSE Verdict(digest(self, password, Some(data.slt.b64), None,
                           ByteLen(data.key.b64)),
                    hashed_password)

\* The Mode.JSON branch of compare().
CompareJSON(self, password, hashed_password) ==
    LET p == json_loads(hashed_password)
        data == p.data
        bad == FirstBadCfg(self, data.cfg)
    IN IF ~p.ok THEN Fails("ArgumentError")
       ELSE IF data.kind # "object" THEN Fails("TypeError")
       ELSE IF "cfg" \notin data.has THEN Fails("KeyError")
       ELSE IF bad # 0
            THEN IF IsParamName(data.cfg[bad][1])
                 THEN Fails("WrongPasswordConfiguration")
                 ELSE Fails("AttributeError")
       ELSE IF "slt" \notin data.has THEN Fails("KeyError")
       ELSE IF ~data.slt.str THEN Fails("TypeError")
       ELSE IF "key" \notin data.has THEN Fails("KeyError")
       ELSE IF ~data.key.str THEN Fails("TypeError")
       ELSE Verdict(digest(self, password, Some(data.slt.b64), None,
                           ByteLen(data.key.b64)),
                    hashed_password)

\* (mutant) find in place of rfind: the first '$', not the last.
SettingsPortion_Find(hashed_password) ==
    LET idx == {i \in 1..Len(hashed_password) : hashed_password[i].t = "$"}
        first == CHOOSE i \in idx : \A j \in idx : i <= j
    IN IF idx = {} THEN <<>> ELSE SubSeq(hashed_password, 1, first - 1)
\* settings = hashed_password[: hashed_password.rfind(b"$")].  Without a
\* '$', rfind gives -1 and the slice drops the last byte: what is left of
\* the last chunk is a chunk of its own.
SettingsPortion(hashed_password) ==
    IF RFindDelim(hashed_password) # 0
    THEN SubSeq(hashed_password, 1, RFindDelim(hashed_password) - 1)
    ELSE IF Len(hashed_password) = 0 THEN <<>>
    ELSE SubSeq(hashed_password, 1, Len(hashed_password) - 1)
         \o <<Chunk("cut", 0)>>

\* (mutant) the startswith(b"$y$") check is left out.
CompareMCF_NoMarkerCheck(self, password, hashed_password) ==
    Verdict(digest(self, password, None,
                   Some(SettingsPortion(hashed_password)), 32),
            hashed_password)

\* The Mode.MCF branch of compare().
CompareMCF(self, password, hashed_password) ==
    IF ~StartsWithMarker(hashed_password) THEN Fails("ArgumentError")
    ELSE Verdict(digest(self, password, None,
                        Some(SettingsPortion(hashed_password)), 32),
                 hashed_password)

\* (mutant) the salt check is left out.
CompareRAW_NoSaltCheck(self, password, hashed_password, salt) ==
    Verdict(digest(self, password, salt, None, ByteLen(hashed_password)),
            hashed_password)

\* The Mode.RAW branch of compare().
CompareRAW(self, password, hashed_password, salt) ==
    IF Falsy(salt) THEN Fails("ArgumentError")
    ELSE Verdict(digest(self, password, salt, None, ByteLen(hashed_password)),
                 hashed_password)

\* Yescrypt.compare(password, hashed_password, salt)
compare(self, password, hashed_password, salt) ==
    IF self.mode = "JSON" THEN CompareJSON(self, password, hashed_password)
    ELSE IF self.mode = "MCF" THEN CompareMCF(self, password, hashed_password)
    ELSE CompareRAW(self, password, hashed_password, salt)

\* ------------------------------------------- stored artifacts, inputs

\* A key of 16 bytes that no derivation outputs.
SomeBytes == <<Chunk("key", [kdf |-> <<>>, len |-> 16])>>

IsJsonText(b) == Len(b) = 1 /\ b[1].t = "json"
IsRawBytes(b) == Len(b) = 0 \/ (Len(b) = 1 /\ b[1].t = "key")

\* The text of document d, compact or laid out with whitespace.
JsonText(d, ws) == <<Chunk("json", [doc |-> d, ws |-> ws])>>

\* What a caller may hand to compare() in place of the JSON artifact a:
\* other texts built from the same document.
JsonVariants(a) ==
    LET d == a[1].v.doc
    IN {<<"partialcfg", JsonText([d EXCEPT !.cfg = SubSeq(d.cfg, 1, 2)], FALSE)>>,
        <<"whitespace", JsonText(d, TRUE)>>,
        <<"unknowncfg", JsonText([d EXCEPT !.cfg = <<<<"x", 0>>>> \o d.cfg], FALSE)>>,
        <<"nocfg", JsonText([d EXCEPT !.has = d.has \ {"cfg"}], FALSE)>>,
        <<"nokey", JsonText([d EXCEPT !.has = d.has \ {"key"}], FALSE)>>,
        <<"noslt", JsonText([d EXCEPT !.has = d.has \ {"slt"}], FALSE)>>,
        <<"keynotstr", JsonText([d EXCEPT !.key = NotAString], FALSE)>>,
        <<"number", JsonText([d EXCEPT !.kind = "number"], FALSE)>>}

\* The byte strings compare() is called with, each with the name of its kind:
\* the stored artifact as it is, texts built from it, and byte strings that
\* are no artifact at all.
CompareInputs(st) ==
    {<<"empty", <<>> >>, <<"bytes", SomeBytes>>, <<"marker", <<Delim, MarkY, Delim>> >>}
    \cup (IF st.some THEN {<<"asis", st.out>>} ELSE {})
    \cup (IF st.some /\ IsJsonText(st.out) THEN JsonVariants(st.out) ELSE {})

\* ------------------------------------------------------------- state

VARIABLES
    hasher,  \* each Yescrypt object: its life, _mode, _params, _local_region
    stored,  \* the artifact of the last digest() that returned, with its inputs
    last     \* the digest() or compare() call that has just ended and whose
             \* outcome the caller has yet to take: its inputs (for compare,
             \* the kind of hashed_password among CompareInputs(stored)) and
             \* its outcome; NoCall between calls

vars == <<hasher, stored, last>>

Unborn ==
    [st |-> "unborn", mode |-> "JSON", params |-> MakeParams(0),
     hasRegion |-> FALSE, inited |-> FALSE, freeCalls |-> 0]

NoCall ==
    [op |-> "none", h |-> "h1", self |-> Unborn, password |-> <<>>, salt |-> None,
     hash_length |-> 0, kind |-> "none",
     exc |-> "none", derived |-> FALSE]

NotStored ==
    [some |-> FALSE, h |-> "h1", self |-> Unborn, password |-> <<>>, salt |-> None,
     hash_length |-> 0, out |-> <<>>]

Init ==
    /\ hasher = [h \in Hashers |-> Unborn]
    /\ stored = NotStored
    /\ last = NoCall

\* Yescrypt.__init__(n, r, t, p, mode).  rc is yescrypt_init_local's return.
\* An object whose construction raised is out of the caller's reach: only
\* __del__ runs on it, which reads neither _mode nor _params, so the model
\* keeps them for live objects only.
Construct(h, n, mode, rc) ==
    /\ last.op = "none"
    /\ hasher[h].st = "unborn"
    /\ \A g \in Earlier(h) : hasher[g].st # "unborn"
    /\ hasher' = [hasher EXCEPT ![h] =
          IF ~FitsUint64(n)
          THEN \* ffi.new(params) raises: _local_region is never assigned
               [Unborn EXCEPT !.st = "failed"]
          ELSE IF rc # 0
          THEN \* _local_region is assigned, yescrypt_init_local fails
               [Unborn EXCEPT !.st = "failed", !.hasRegion = TRUE]
          ELSE [st |-> "live",
                mode |-> mode,
                params |-> MakeParams(n),
                hasRegion |-> TRUE,
                inited |-> TRUE,
                freeCalls |-> 0]]
    /\ UNCHANGED <<stored, last>>

\* Yescrypt.__del__(): runs once, when the object is collected.
Destroy(h) ==
    /\ last.op = "none"
    /\ hasher[h].st \in {"live", "failed"}
    /\ hasher' = [hasher EXCEPT ![h] =
          [@ EXCEPT !.st = "dead", !.mode = Unborn.mode, !.params = Unborn.params,
                    \* if hasattr(self, "_local_region"): yescrypt_free_local
                    !.freeCalls = IF hasher[h].hasRegion THEN @ + 1 ELSE @]]
    /\ UNCHANGED <<stored, last>>

\* A call of digest(password, salt, hash_length=hash_length) on a live hasher.
DigestCall(h, password, salt, hash_length) ==
    /\ last.op = "none"
    /\ hasher[h].st = "live"
    /\ LET r == digest(hasher[h], password, salt, None, hash_length)
       IN /\ last' = [op |-> "digest", h |-> h, self |-> hasher[h],
                      password |-> password,
                      salt |-> salt, hash_length |-> hash_length,
                      kind |-> "none",
                      exc |-> r.exc, derived |-> r.derived]
          /\ stored' = IF r.exc = "none"
                       THEN [some |-> TRUE, h |-> h, self |-> hasher[h],
                             password |-> password,
                             salt |-> salt, hash_length |-> hash_length,
                             out |-> r.out]
                       ELSE stored
    /\ UNCHANGED hasher

\* A call of compare(password, hashed_password, salt) on a live hasher.  A
\* Mode.RAW hasher reads len(hashed_password): it is given raw bytes.
CompareCall(h, password, input, salt) ==
    /\ last.op = "none"
    /\ hasher[h].st = "live"
    /\ hasher[h].mode = "RAW" => IsRawBytes(input[2])
    /\ LET r == compare(hasher[h], password, input[2], salt)
       IN last' = [op |-> "compare", h |-> h, self |-> hasher[h],
                   password |-> password,
                   salt |-> salt, hash_length |-> 0,
                   kind |-> input[1],
                   exc |-> r.exc, derived |-> r.derived]
    /\ UNCHANGED <<hasher, stored>>

\* The call returns (or raises) to the caller, who goes on.  Calls are
\* synchronous: nothing else happens to any hasher while one is running.
Return ==
    /\ last.op # "none"
    /\ last' = NoCall
    /\ UNCHANGED <<hasher, stored>>

Next ==
    \/ \E h \in Hashers, n \in Ns, mode \in Modes, rc \in {0, -1} :
          Construct(h, n, mode, rc)
    \/ \E h \in Hashers : Destroy(h)
    \/ \E h \in Hashers, password \in Passwords, salt \in OptSalts,
          hash_length \in HashLengths :
          DigestCall(h, password, salt, hash_length)
    \/ \E h \in Hashers, password \in Passwords, salt \in OptSalts,
          input \in CompareInputs(stored) :
          CompareCall(h, password, input, salt)
    \/ Return

Spec == Init /\ [][Next]_vars

\* ============================================================ claims

\* hashed_password of the compare() call that has just ended.
LastHashed == (CHOOSE i \in CompareInputs(stored) : i[1] = last.kind)[2]

\* compare() has just ended, on the hasher that made the stored artifact
\* and on that artifact as it is.
ComparedStored ==
    /\ last.op = "compare"
    /\ stored.some
    /\ last.kind = "asis"
    /\ last.h = stored.h

\* C1 (as stated): in Mode.JSON and Mode.RAW, compare(password, artifact) --
\* with digest's salt in Mode.RAW -- succeeds for every artifact that
\* digest(password, salt) returned on the same hasher.
C1_RoundTrip ==
    (/\ ComparedStored
     /\ stored.self.mode \in {"JSON", "RAW"}
     /\ last.password = stored.password
     /\ stored.self.mode = "RAW" => last.salt = stored.salt)
    => last.exc = "none"

\* How far C1 goes: the round trip holds in Mode.JSON for every salt, and in
\* Mode.RAW for every salt of at least one byte.
RoundTripNonEmptySalt ==
    (/\ ComparedStored
     /\ stored.self.mode \in {"JSON", "RAW"}
     /\ last.password = stored.password
     /\ stored.self.mode = "RAW" =>
           (last.salt = stored.salt /\ ~Falsy(stored.salt)))
    => last.exc = "none"

\* C2 (as stated): in every mode, compare(password', artifact) -- with
\* digest's salt in Mode.RAW -- with password' other than the password of
\* digest(password, salt) raises WrongPassword.
C2_WrongPassword ==
    (/\ ComparedStored
     /\ stored.hash_length = 32
     /\ last.password # stored.password
     /\ stored.self.mode = "RAW" => last.salt = stored.salt)
    => last.exc = "WrongPassword"

\* How far C2 goes: the wrong password is rejected in Mode.JSON and Mode.MCF,
\* and in Mode.RAW for every salt of at least one byte.
WrongPasswordNonEmptySalt ==
    (/\ ComparedStored
     /\ stored.hash_length = 32
     /\ last.password # stored.password
     /\ stored.self.mode = "RAW" =>
           (last.salt = stored.salt /\ ~Falsy(stored.salt)))
    => last.exc = "WrongPassword"

\* hashed_password is the text of a record whose cfg names parameters only.
IsRecordWithCfg(b) ==
    /\ IsJsonText(b)
    /\ b[1].v.doc.kind = "object"
    /\ "cfg" \in b[1].v.doc.has
    /\ \A i \in 1..Len(b[1].v.doc.cfg) : IsParamName(b[1].v.doc.cfg[i][1])

CfgOf(b) == b[1].v.doc.cfg

\* C3: a Mode.JSON compare() on a record whose cfg holds a parameter value
\* other than the hasher's raises WrongPasswordConfiguration, whatever the
\* password and the rest of the record, and derives no key.
C3_ConfigMismatchBeforeHashing ==
    (/\ last.op = "compare"
     /\ last.self.mode = "JSON"
     /\ IsRecordWithCfg(LastHashed)
     /\ \E i \in 1..Len(CfgOf(LastHashed)) :
           CfgOf(LastHashed)[i][2] # last.self.params[CfgOf(LastHashed)[i][1]])
    => (last.exc = "WrongPasswordConfiguration" /\ ~last.derived)

C3_Witness ==
    /\ last.op = "compare"
    /\ last.self.mode = "JSON"
    /\ last.kind = "asis"
    /\ last.password = stored.password
    /\ stored.self.params.N # last.self.params.N
    /\ last.exc = "WrongPasswordConfiguration"
    /\ ~last.derived

\* C4: a Mode.JSON compare() on a Mode.MCF artifact, and a Mode.MCF compare()
\* on a Mode.JSON artifact, raise ArgumentError and derive no key.
C4_ModeMismatch ==
    (/\ last.op = "compare"
     /\ stored.some
     /\ last.kind = "asis"
     /\ \/ last.self.mode = "JSON" /\ stored.self.mode = "MCF"
        \/ last.self.mode = "MCF" /\ stored.self.mode = "JSON")
    => (last.exc = "ArgumentError" /\ ~last.derived)

C4_Witness ==
    /\ last.op = "compare"
    /\ stored.some
    /\ last.kind = "asis"
    /\ last.self.mode = "MCF" /\ stored.self.mode = "JSON"
    /\ last.password = stored.password
    /\ last.exc = "ArgumentError"

\* C5: a Mode.MCF artifact begins with "$y$", what compare() takes for its
\* settings is the settings string digest() derived it from, and compare()
\* with the same password on the same hasher succeeds.
C5_CompactRoundTrip ==
    /\ (stored.some /\ stored.self.mode = "MCF") =>
          /\ StartsWithMarker(stored.out)
          /\ BytesEq(SettingsPortion(stored.out),
                     yescrypt_encode_params(stored.self.params, stored.salt.v).s)
    /\ (ComparedStored /\ stored.self.mode = "MCF"
        /\ last.password = stored.password) => last.exc = "none"

C5_Witness ==
    /\ ComparedStored
    /\ stored.self.mode = "MCF"
    /\ last.password = stored.password
    /\ last.exc = "none"

\* C6 (as stated): a Mode.MCF compare() with the right password on the
\* artifact of a Mode.MCF hasher with other parameters raises WrongPassword
\* (stated here for two parameter sets the library accepts).
C6_CompactMismatchIsWrongPassword ==
    (/\ last.op = "compare"
     /\ stored.some
     /\ last.kind = "asis"
     /\ last.self.mode = "MCF" /\ stored.self.mode = "MCF"
     /\ last.self.params # stored.self.params
     /\ ValidParams(last.self.params)
     /\ last.password = stored.password)
    => last.exc = "WrongPassword"

\* C7 (as stated): yescrypt_free_local is called once for a hasher whose
\* region was initialised, by the time the hasher is gone, never for one
\* whose initialisation failed, and never before the hasher's last call.
C7_RegionFreedOnceIfInitialised ==
    \A h \in Hashers :
       /\ hasher[h].st = "live" => hasher[h].freeCalls = 0
       /\ (hasher[h].st = "dead" /\ hasher[h].inited) => hasher[h].freeCalls = 1
       /\ ~hasher[h].inited => hasher[h].freeCalls = 0

\* C8: a Mode.RAW compare() without a salt raises ArgumentError and derives
\* no key.
C8_RawNeedsSalt ==
    (/\ last.op = "compare"
     /\ last.self.mode = "RAW"
     /\ ~last.salt.some)
    => (last.exc = "ArgumentError" /\ ~last.derived)

C8_Witness ==
    /\ ComparedStored
    /\ last.self.mode = "RAW"
    /\ last.password = stored.password
    /\ ~last.salt.some
    /\ last.exc = "ArgumentError"

\* The outcomes of compare() the error taxonomy names.
Typed ==
    {"none", "ArgumentError", "WrongPasswordConfiguration", "WrongPassword",
     "HashingError"}

\* C9 (as stated): a Mode.JSON compare() ends in success or in one of the
\* taxonomy's errors, whatever bytes it is given.
C9_TypedFailures ==
    (last.op = "compare" /\ last.self.mode = "JSON") => last.exc \in Typed

\* C10 (as stated): a Mode.JSON compare() succeeds on every record whose cfg
\* entries agree with the hasher's parameters and whose key is the key
\* derived from the password, the record's salt and the record's key length.
C10_KeyDecides ==
    (/\ last.op = "compare"
     /\ last.self.mode = "JSON"
     /\ IsRecordWithCfg(LastHashed)
     /\ FirstBadCfg(last.self, CfgOf(LastHashed)) = 0
     /\ LET d == LastHashed[1].v.doc
        IN /\ {"key", "slt"} \subseteq d.has
           /\ d.key.str /\ d.slt.str
           /\ ValidParams(last.self.params)
           /\ BytesEq(d.key.b64,
                      RawKey(last.self.params, last.password, d.slt.b64,
                             ByteLen(d.key.b64))))
    => last.exc = "none"

====
